---- MODULE Spec2Model ----
(***************************************************************************)
(* Model of reflexagent.py: the model-based reflex agent (rule_match,      *)
(* update_state, ModelBasedReflexAgent) and its vacuum-world instantiation.*)
(*                                                                         *)
(* Python dicts are mutable objects reached through references, and two    *)
(* agents may be handed the same dict.  The model therefore keeps a heap   *)
(* of dict objects; a belief state is an address into the heap.  dict(x)   *)
(* allocates a copy, s[k] = v updates the object at the address.           *)
(***************************************************************************)
EXTENDS Integers, Sequences, FiniteSets, TLC

VARIABLES
    heap,    \* Seq of dict objects; address = index, address 0 = None / key absent
    agents,  \* agents[i]: the fields of the i-th ModelBasedReflexAgent
    args,    \* args[i]: the arguments the caller passed to the i-th constructor
    trace,   \* trace[i]: one record per perceive call made on agent i
    world    \* the two-square world the host loop acts in (NoWorld: none attached)

vars == <<heap, agents, args, trace, world>>

(***************************************************************************)
(* Bounds                                                                  *)
(***************************************************************************)
MaxSteps == 3   \* perceive calls on the single agent of Spec
MaxCalls == 3   \* perceive calls, over both agents, of SpecTwo

(***************************************************************************)
(* Values                                                                  *)
(***************************************************************************)
\* Python's True / False / "key not in dict", as strings so that every
\* dict field has one comparable type.
Flags == {"True", "False"}

\* A state dict {'loc': .., 'dirty': <address of a dirty dict>}.
\* loc = "absent" : no 'loc' key; dirty = 0 : no 'dirty' key.
StateObj(loc, dirty) == [loc |-> loc, dirty |-> dirty, A |-> "-", B |-> "-"]

\* A dirty dict {'A': .., 'B': ..}; "absent" : the key is missing.
DirtyObj(a, b) == [loc |-> "-", dirty |-> 0, A |-> a, B |-> b]

\* x = dict(...) / a dict literal: allocate a new object, its address is
\* Len of the new heap.
Alloc(h, obj) == Append(h, obj)

\* The value of the state dict at address s, as Python's == and print see it
\* (nested dirty dict included).
Val(h, s) ==
    [loc       |-> h[s].loc,
     has_dirty |-> h[s].dirty # 0,
     A         |-> IF h[s].dirty = 0 THEN "absent" ELSE h[h[s].dirty].A,
     B         |-> IF h[s].dirty = 0 THEN "absent" ELSE h[h[s].dirty].B]

\* Mutant of DirtyGet: the flag of square A is read wherever the agent is.
DirtyGet_always_A(h, d, k) ==
    IF d = 0 THEN "False"
    ELSE IF h[d].A = "absent" THEN "False" ELSE h[d].A

\* d.get(k, False) on the dirty dict at address d, for k = st.get('loc').
DirtyGet(h, d, k) ==
    IF d = 0 THEN "False"
    ELSE IF k = "A" THEN (IF h[d].A = "absent" THEN "False" ELSE h[d].A)
    ELSE IF k = "B" THEN (IF h[d].B = "absent" THEN "False" ELSE h[d].B)
    ELSE "False"

\* percept = {'loc': 'A'|'B', 'dirty': True|False}
WellFormedPercepts == [loc : {"A", "B"}, dirty : Flags]

\* Percepts that break the sensor model's contract: {} and {'loc': 'A'}.
MalformedPercepts ==
    {[loc |-> "absent", dirty |-> "absent"], [loc |-> "A", dirty |-> "absent"]}

Percepts == WellFormedPercepts \cup MalformedPercepts

Actions == {"SUCK", "RIGHT", "LEFT", "WAIT", "NO-OP", "None"}

\* One action of each kind the transition models tell apart.
MovesAndOthers == {"LEFT", "RIGHT", "SUCK", "NO-OP"}

(***************************************************************************)
(* Transition models: (heap, state, last_action) -> [h, r]; r = 0: raised  *)
(***************************************************************************)
\* Mutant of vacuum_transition_model: a SUCK is predicted to clean the
\* current square (a copy of the dirty dict with dirty[loc] = False).
vacuum_transition_model_suck_cleans(h, state, last_action) ==
    LET h1 == Alloc(h, h[state])
        s  == Len(h1)
        h2 == IF last_action = "LEFT" THEN [h1 EXCEPT ![s].loc = "A"]
              ELSE IF last_action = "RIGHT" THEN [h1 EXCEPT ![s].loc = "B"]
              ELSE h1
    IN  IF last_action = "SUCK" /\ h2[s].dirty # 0 /\ h2[s].loc \in {"A", "B"}
        THEN LET h3 == Alloc(h2, h2[h2[s].dirty])
                 d  == Len(h3)
                 h4 == IF h3[s].loc = "A" THEN [h3 EXCEPT ![d].A = "False"]
                       ELSE [h3 EXCEPT ![d].B = "False"]
             IN  [h |-> [h4 EXCEPT ![s].dirty = d], r |-> s]
        ELSE [h |-> h2, r |-> s]

\* Mutant of vacuum_transition_model: s = state instead of s = dict(state),
\* so a move is written into the caller's dict.
vacuum_transition_model_no_copy(h, state, last_action) ==
    [h |-> IF last_action = "LEFT" THEN [h EXCEPT ![state].loc = "A"]
           ELSE IF last_action = "RIGHT" THEN [h EXCEPT ![state].loc = "B"]
           ELSE h,
     r |-> state]

vacuum_transition_model(h, state, last_action) ==
    LET h1 == Alloc(h, h[state])          \* s = dict(state)
        s  == Len(h1)
        h2 == IF last_action = "LEFT" THEN [h1 EXCEPT ![s].loc = "A"]
              ELSE IF last_action = "RIGHT" THEN [h1 EXCEPT ![s].loc = "B"]
              ELSE h1
    IN  [h |-> h2, r |-> s]

\* lambda state, last_action: state
identity_transition_model(h, state, last_action) == [h |-> h, r |-> state]

\* A transition model that is not total: it raises after a SUCK and
\* otherwise predicts as the vacuum model does.
partial_transition_model(h, state, last_action) ==
    IF last_action = "SUCK" THEN [h |-> h, r |-> 0]
    ELSE vacuum_transition_model(h, state, last_action)

\* self.transition_model(state, last_action): call through the reference.
transition_model(tm, h, state, last_action) ==
    CASE tm = "vacuum"   -> vacuum_transition_model(h, state, last_action)
      [] tm = "identity" -> identity_transition_model(h, state, last_action)
      [] tm = "partial"  -> partial_transition_model(h, state, last_action)

(***************************************************************************)
(* Sensor models: (heap, percept, predicted) -> [h, r]; r = 0: raised      *)
(***************************************************************************)
\* Mutant of vacuum_sensor_model: without dirty = dict(dirty), so the dirty
\* dict of the predicted state is updated in place.
vacuum_sensor_model_in_place(h, percept, predicted) ==
    LET h1 == Alloc(h, h[predicted])
        s  == Len(h1)
    IN  IF percept.loc = "absent" THEN [h |-> h1, r |-> 0]
        ELSE
        LET loc == percept.loc
            h2  == [h1 EXCEPT ![s].loc = loc]
            h3  == Alloc(h2, DirtyObj("False", "False"))
            d   == IF h3[s].dirty = 0 THEN Len(h3) ELSE h3[s].dirty
        IN  IF percept.dirty = "absent" THEN [h |-> h3, r |-> 0]
            ELSE
            LET h5 == IF loc = "A" THEN [h3 EXCEPT ![d].A = percept.dirty]
                      ELSE [h3 EXCEPT ![d].B = percept.dirty]
                h6 == [h5 EXCEPT ![s].dirty = d]
            IN  [h |-> h6, r |-> s]

\* Mutant of vacuum_sensor_model: the dirty dict is rebuilt from the default
\* on every call, so the belief about the other square is forgotten.
vacuum_sensor_model_forgets(h, percept, predicted) ==
    LET h1 == Alloc(h, h[predicted])
        s  == Len(h1)
    IN  IF percept.loc = "absent" THEN [h |-> h1, r |-> 0]
        ELSE
        LET loc == percept.loc
            h2  == [h1 EXCEPT ![s].loc = loc]
            h3  == Alloc(h2, DirtyObj("False", "False"))
            d   == Len(h3)
        IN  IF percept.dirty = "absent" THEN [h |-> h3, r |-> 0]
            ELSE
            LET h5 == IF loc = "A" THEN [h3 EXCEPT ![d].A = percept.dirty]
                      ELSE [h3 EXCEPT ![d].B = percept.dirty]
                h6 == [h5 EXCEPT ![s].dirty = d]
            IN  [h |-> h6, r |-> s]

\* Mutant of vacuum_sensor_model: the default of s.get('dirty', ...) is {}.
vacuum_sensor_model_empty_default(h, percept, predicted) ==
    LET h1 == Alloc(h, h[predicted])
        s  == Len(h1)
    IN  IF percept.loc = "absent" THEN [h |-> h1, r |-> 0]
        ELSE
        LET loc == percept.loc
            h2  == [h1 EXCEPT ![s].loc = loc]
            h3  == Alloc(h2, DirtyObj("absent", "absent"))
            d0  == IF h3[s].dirty = 0 THEN Len(h3) ELSE h3[s].dirty
            h4  == Alloc(h3, h3[d0])
            d   == Len(h4)
        IN  IF percept.dirty = "absent" THEN [h |-> h4, r |-> 0]
            ELSE
            LET h5 == IF loc = "A" THEN [h4 EXCEPT ![d].A = percept.dirty]
                      ELSE [h4 EXCEPT ![d].B = percept.dirty]
                h6 == [h5 EXCEPT ![s].dirty = d]
            IN  [h |-> h6, r |-> s]

\* Mutant of vacuum_sensor_model: without s['loc'] = loc, so the predicted
\* location is kept.
vacuum_sensor_model_keeps_loc(h, percept, predicted) ==
    LET h1 == Alloc(h, h[predicted])
        s  == Len(h1)
    IN  IF percept.loc = "absent" THEN [h |-> h1, r |-> 0]
        ELSE
        LET loc == percept.loc
            h3  == Alloc(h1, DirtyObj("False", "False"))
            d0  == IF h3[s].dirty = 0 THEN Len(h3) ELSE h3[s].dirty
            h4  == Alloc(h3, h3[d0])
            d   == Len(h4)
        IN  IF percept.dirty = "absent" THEN [h |-> h4, r |-> 0]
            ELSE
            LET h5 == IF loc = "A" THEN [h4 EXCEPT ![d].A = percept.dirty]
                      ELSE [h4 EXCEPT ![d].B = percept.dirty]
                h6 == [h5 EXCEPT ![s].dirty = d]
            IN  [h |-> h6, r |-> s]

vacuum_sensor_model(h, percept, predicted) ==
    LET h1 == Alloc(h, h[predicted])      \* s = dict(predicted)
        s  == Len(h1)
    IN  IF percept.loc = "absent" THEN [h |-> h1, r |-> 0]   \* KeyError 'loc'
        ELSE
        LET loc == percept.loc
            h2  == [h1 EXCEPT ![s].loc = loc]                 \* s['loc'] = loc
            \* dirty = s.get('dirty', {'A': False, 'B': False}); the default
            \* literal is built before the call whether or not it is used
            h3  == Alloc(h2, DirtyObj("False", "False"))
            d0  == IF h3[s].dirty = 0 THEN Len(h3) ELSE h3[s].dirty
            h4  == Alloc(h3, h3[d0])                          \* dirty = dict(dirty)
            d   == Len(h4)
        IN  IF percept.dirty = "absent" THEN [h |-> h4, r |-> 0] \* KeyError 'dirty'
            ELSE
            LET h5 == IF loc = "A" THEN [h4 EXCEPT ![d].A = percept.dirty]
                      ELSE [h4 EXCEPT ![d].B = percept.dirty]
                h6 == [h5 EXCEPT ![s].dirty = d]              \* s['dirty'] = dirty
            IN  [h |-> h6, r |-> s]

\* lambda percept, predicted: predicted
identity_sensor_model(h, percept, predicted) == [h |-> h, r |-> predicted]

\* self.sensor_model(percept, predicted): call through the reference.
sensor_model(sm, h, percept, predicted) ==
    CASE sm = "vacuum"   -> vacuum_sensor_model(h, percept, predicted)
      [] sm = "identity" -> identity_sensor_model(h, percept, predicted)

(***************************************************************************)
(* Rule and rule_match                                                     *)
(***************************************************************************)
\* Rule(condition, action); the condition is named by the lambda it holds.
Rule(condition, action) == [condition |-> condition, action |-> action]

\* r.condition(state): "True", "False", or "raise" when the call raises.
Condition(c, h, state) ==
    CASE c = "dirty_here" ->
           \* st.get('dirty', {}).get(st.get('loc'), False) is True
           IF DirtyGet(h, h[state].dirty, h[state].loc) = "True"
           THEN "True" ELSE "False"
      [] c = "at_A" -> IF h[state].loc = "A" THEN "True" ELSE "False"
      [] c = "at_B" -> IF h[state].loc = "B" THEN "True" ELSE "False"
      [] c = "always" -> "True"                      \* lambda st: True
      [] c = "raises_at_B" ->                        \* a condition that is not total
           IF h[state].loc = "B" THEN "raise" ELSE "False"

\* Mutant of vacuum_rules: the two location rules come before the dirt rule.
vacuum_rules_dirt_last ==
    << Rule("at_A", "RIGHT"), Rule("at_B", "LEFT"), Rule("dirty_here", "SUCK") >>

vacuum_rules ==
    << Rule("dirty_here", "SUCK"), Rule("at_A", "RIGHT"), Rule("at_B", "LEFT") >>

\* The loop of rule_match from position i on.  The returned Rule object is
\* named by its position in rules; 0 stands for None, -1 for an exception
\* raised by a condition.
RECURSIVE rule_match_from(_, _, _, _)
rule_match_from(h, state, rules, i) ==
    IF i > Len(rules) THEN 0
    ELSE LET c == Condition(rules[i].condition, h, state)
         IN  IF c = "raise" THEN -1
             ELSE IF c = "True" THEN i
             ELSE rule_match_from(h, state, rules, i + 1)

\* Mutant of rule_match: the last rule whose condition is true wins.
rule_match_last(h, state, rules) ==
    LET T == {k \in 1..Len(rules) : Condition(rules[k].condition, h, state) = "True"}
    IN  IF T = {} THEN 0 ELSE CHOOSE k \in T : \A j \in T : j <= k

rule_match(h, state, rules) == rule_match_from(h, state, rules, 1)

(***************************************************************************)
(* update_state                                                            *)
(***************************************************************************)
\* Returns the heap after the calls, the corrected state r (0 when a model
\* raised), which call raised, and the action handed to the transition model.
\* Mutant of update_state: corrects first and predicts second.
update_state_swapped(h, state, last_action, percept, tm, sm) ==
    LET corrected == sensor_model(sm, h, percept, state)
    IN  IF corrected.r = 0
        THEN [h |-> corrected.h, r |-> 0, raised |-> "sensor_model",
              tm_action |-> last_action]
        ELSE LET predicted == transition_model(tm, corrected.h, corrected.r, last_action)
             IN  IF predicted.r = 0
                 THEN [h |-> predicted.h, r |-> 0, raised |-> "transition_model",
                       tm_action |-> last_action]
                 ELSE [h |-> predicted.h, r |-> predicted.r, raised |-> "",
                       tm_action |-> last_action]

update_state(h, state, last_action, percept, tm, sm) ==
    LET predicted == transition_model(tm, h, state, last_action)
    IN  IF predicted.r = 0
        THEN [h |-> predicted.h, r |-> 0, raised |-> "transition_model",
              tm_action |-> last_action]
        ELSE LET corrected == sensor_model(sm, predicted.h, percept, predicted.r)
             IN  IF corrected.r = 0
                 THEN [h |-> corrected.h, r |-> 0, raised |-> "sensor_model",
                       tm_action |-> last_action]
                 ELSE [h |-> corrected.h, r |-> corrected.r, raised |-> "",
                       tm_action |-> last_action]

(***************************************************************************)
(* ModelBasedReflexAgent                                                   *)
(***************************************************************************)
\* bool(d) is False for None and for the empty dict.
Falsy(h, d) == d = 0 \/ (h[d].loc = "absent" /\ h[d].dirty = 0)

\* __init__: returns the heap (a fresh {} may be allocated) and the fields.
\* Mutant of __init__: self.action starts as None whatever no_op is.
ModelBasedReflexAgent_action_none(h, tm, sm, rules, initial_state, no_op) ==
    LET h1 == IF Falsy(h, initial_state) THEN Alloc(h, StateObj("absent", 0)) ELSE h
        st == IF Falsy(h, initial_state) THEN Len(h1) ELSE initial_state
    IN  [h    |-> h1,
         self |-> [transition_model |-> tm,
                   sensor_model     |-> sm,
                   rules            |-> rules,
                   state            |-> st,
                   action           |-> "None",
                   no_op            |-> no_op]]

ModelBasedReflexAgent(h, tm, sm, rules, initial_state, no_op) ==
    LET h1 == IF Falsy(h, initial_state) THEN Alloc(h, StateObj("absent", 0)) ELSE h
        st == IF Falsy(h, initial_state) THEN Len(h1) ELSE initial_state
    IN  [h    |-> h1,
         self |-> [transition_model |-> tm,
                   sensor_model     |-> sm,
                   rules            |-> rules,
                   state            |-> st,
                   action           |-> no_op,
                   no_op            |-> no_op]]

\* Mutant of step 2 of perceive: the action is returned but not stored.
select_action_unrecorded(h, self1, tm_action) ==
    LET r == rule_match_from(h, self1.state, self1.rules, 1)
    IN  IF r = -1
        THEN [h |-> h, self |-> self1, ret |-> "-", raised |-> "condition",
              matched |-> 0, tm_action |-> tm_action]
        ELSE [h |-> h, self |-> self1,
              ret |-> IF r # 0 THEN self1.rules[r].action ELSE self1.no_op,
              raised |-> "", matched |-> r, tm_action |-> tm_action]

\* Mutant of step 2 of perceive: None, not self.no_op, when no rule matches.
select_action_none(h, self1, tm_action) ==
    LET r == rule_match_from(h, self1.state, self1.rules, 1)
    IN  IF r = -1
        THEN [h |-> h, self |-> self1, ret |-> "-", raised |-> "condition",
              matched |-> 0, tm_action |-> tm_action]
        ELSE
        LET action == IF r # 0 THEN self1.rules[r].action ELSE "None"
            self2  == [self1 EXCEPT !.action = action]
        IN  [h |-> h, self |-> self2, ret |-> self2.action, raised |-> "",
             matched |-> r, tm_action |-> tm_action]

\* Mutant of step 2 of perceive: the matched rule is moved to the front of
\* self.rules.
select_action_promotes_rule(h, self1, tm_action) ==
    LET r == rule_match_from(h, self1.state, self1.rules, 1)
    IN  IF r = -1
        THEN [h |-> h, self |-> self1, ret |-> "-", raised |-> "condition",
              matched |-> 0, tm_action |-> tm_action]
        ELSE
        LET action == IF r # 0 THEN self1.rules[r].action ELSE self1.no_op
            rules2 == IF r = 0 THEN self1.rules
                      ELSE << self1.rules[r] >> \o SubSeq(self1.rules, 1, r - 1)
                           \o SubSeq(self1.rules, r + 1, Len(self1.rules))
            self2  == [self1 EXCEPT !.action = action, !.rules = rules2]
        IN  [h |-> h, self |-> self2, ret |-> self2.action, raised |-> "",
             matched |-> r, tm_action |-> tm_action]

\* Step 2 of perceive (r = rule_match(...); self.action = ...; return), run
\* on the heap h and the fields self1 left by step 1; tm_action is the action
\* step 1 handed to the transition model.  Returns the heap and the agent's
\* fields after the call, the returned action (ret, "-" when the call
\* raised), where an exception came from (raised, "" when none) and the
\* position of the matched rule.
select_action(h, self1, tm_action) ==
    LET r == rule_match(h, self1.state, self1.rules)
    IN  IF r = -1
        THEN [h |-> h, self |-> self1, ret |-> "-", raised |-> "condition",
              matched |-> 0, tm_action |-> tm_action]
        ELSE
        LET action == IF r # 0 THEN self1.rules[r].action ELSE self1.no_op
            self2  == [self1 EXCEPT !.action = action]
        IN  [h |-> h, self |-> self2, ret |-> self2.action, raised |-> "",
             matched |-> r, tm_action |-> tm_action]

\* perceive: self.state = update_state(...), then step 2.  An exception in
\* update_state leaves before the assignment to self.state.
\* Mutant of perceive: self.state is assigned after the predict phase and
\* again after the correct phase.
perceive_commits_prediction(h, self, percept) ==
    LET t == transition_model(self.transition_model, h, self.state, self.action)
    IN  IF t.r = 0
        THEN [h |-> t.h, self |-> self, ret |-> "-", raised |-> "transition_model",
              matched |-> 0, tm_action |-> self.action]
        ELSE
        LET z == sensor_model(self.sensor_model, t.h, percept, t.r)
        IN  IF z.r = 0
            THEN [h |-> z.h, self |-> [self EXCEPT !.state = t.r], ret |-> "-",
                  raised |-> "sensor_model", matched |-> 0, tm_action |-> self.action]
            ELSE select_action(z.h, [self EXCEPT !.state = z.r], self.action)

\* Mutant of perceive: the new state is committed only once rule matching
\* has succeeded; a condition that raises leaves the agent as it was.
perceive_atomic(h, self, percept) ==
    LET u == update_state(h, self.state, self.action, percept,
                          self.transition_model, self.sensor_model)
    IN  IF u.raised # ""
        THEN [h |-> u.h, self |-> self, ret |-> "-", raised |-> u.raised,
              matched |-> 0, tm_action |-> u.tm_action]
        ELSE LET o == select_action(u.h, [self EXCEPT !.state = u.r], u.tm_action)
             IN  IF o.raised = "condition" THEN [o EXCEPT !.self = self] ELSE o

perceive(h, self, percept) ==
    LET u == update_state(h, self.state, self.action, percept,
                          self.transition_model, self.sensor_model)
    IN  IF u.raised # ""
        THEN [h |-> u.h, self |-> self, ret |-> "-", raised |-> u.raised,
              matched |-> 0, tm_action |-> u.tm_action]
        ELSE select_action(u.h, [self EXCEPT !.state = u.r], u.tm_action)

(***************************************************************************)
(* The world                                                               *)
(***************************************************************************)
\* World: the agent's true location, the true dirt of the squares A and B,
\* and the dirt the two squares started with.
World(loc, a, b) == [loc |-> loc, A |-> a, B |-> b, A0 |-> a, B0 |-> b]

\* No world is attached: the percepts come from the caller.
NoWorld == [loc |-> "-", A |-> "-", B |-> "-", A0 |-> "-", B0 |-> "-"]

(***************************************************************************)
(* Inputs of the constructor                                               *)
(***************************************************************************)
\* The caller's heap before construction and the initial_state argument
\* (ref = 0: None, the default).
InitialStates ==
    { [h |-> << >>, ref |-> 0],                                    \* None
      [h |-> << StateObj("absent", 0) >>, ref |-> 1],               \* {}
      [h |-> << StateObj("A", 0) >>, ref |-> 1],                    \* {'loc': 'A'}
      [h |-> << DirtyObj("True", "True"), StateObj("A", 1) >>, ref |-> 2],
      [h |-> << DirtyObj("False", "True"), StateObj("B", 1) >>, ref |-> 2] }

RuleLists ==
    { vacuum_rules,
      << >>,
      << Rule("at_A", "RIGHT") >>,
      << Rule("dirty_here", "SUCK"), Rule("at_A", "RIGHT"), Rule("always", "WAIT") >>,
      << Rule("dirty_here", "SUCK"), Rule("raises_at_B", "WAIT"), Rule("at_A", "RIGHT") >> }

\* no_op: 'NO-OP' as in the driver, or the default None.
NoOps == {"NO-OP", "None"}

\* The value of the empty dict {}.
EmptyVal == [loc |-> "absent", has_dirty |-> FALSE, A |-> "absent", B |-> "absent"]

\* What the caller passed to the constructor; initial_value is the value the
\* initial_state argument had at that moment (is_none: it was None/omitted).
ConstructorArgs(h, tm, sm, rules, initial_state, no_op) ==
    [transition_model |-> tm, sensor_model |-> sm, rules |-> rules,
     initial_state |-> initial_state,
     is_none |-> initial_state = 0,
     initial_value |-> IF initial_state = 0 THEN EmptyVal ELSE Val(h, initial_state),
     no_op |-> no_op]

(***************************************************************************)
(* One agent, any collaborators                                            *)
(***************************************************************************)
\* The pairs of models an agent is built with.
ModelPairs ==
    { <<"vacuum", "vacuum">>, <<"vacuum", "identity">>, <<"identity", "vacuum">>,
      <<"identity", "identity">>, <<"partial", "vacuum">> }

Init ==
    \E m \in ModelPairs, rules \in RuleLists, ini \in InitialStates, no_op \in NoOps :
        \* the defaults are taken together: no_op=None only with initial_state=None
        /\ no_op = "None" => ini.ref = 0
        /\ LET c == ModelBasedReflexAgent(ini.h, m[1], m[2], rules, ini.ref, no_op)
           IN  /\ heap = c.h
               /\ agents = << c.self >>
               /\ args = << ConstructorArgs(ini.h, m[1], m[2], rules, ini.ref, no_op) >>
               /\ trace = << << >> >>
               /\ world = NoWorld

\* The record of one perceive call, as the caller sees it: the percept it
\* passed, what came back, and the agent's state printed after the call.
CallRecord(o, p) ==
    [percept |-> p, raised |-> o.raised, ret |-> o.ret, matched |-> o.matched,
     tm_action |-> o.tm_action, state |-> Val(o.h, o.self.state)]

\* action = agent.perceive(p) on agent i.
Perceive(i, p) ==
    LET o == perceive(heap, agents[i], p)
    IN  /\ heap' = o.h
        /\ agents' = [agents EXCEPT ![i] = o.self]
        /\ trace' = [trace EXCEPT ![i] = Append(@, CallRecord(o, p))]
        /\ UNCHANGED <<args, world>>

Next ==
    \E p \in Percepts :
        /\ Len(trace[1]) < MaxSteps
        /\ Perceive(1, p)

Spec == Init /\ [][Next]_vars

(***************************************************************************)
(* Two agents with the vacuum models, whole perceive calls interleaved     *)
(***************************************************************************)
\* The rule lists the two agents are built from.
TwoRuleLists ==
    { vacuum_rules,
      << Rule("dirty_here", "SUCK"), Rule("at_A", "RIGHT"), Rule("always", "WAIT") >> }

\* The objects of heap h placed at addresses n+1 .. n+Len(h).
Shift(h, n) ==
    [k \in 1..Len(h) |-> IF h[k].dirty = 0 THEN h[k] ELSE [h[k] EXCEPT !.dirty = @ + n]]

\* Both agents get the same initial_state value: the very same dict object
\* (shared), or two equal dicts built separately.
InitTwo ==
    \E ini \in InitialStates, shared \in BOOLEAN, r1 \in TwoRuleLists, r2 \in TwoRuleLists :
        /\ shared => ini.ref # 0
        /\ LET n    == Len(ini.h)
               h0   == IF shared THEN ini.h ELSE ini.h \o Shift(ini.h, n)
               ref2 == IF shared \/ ini.ref = 0 THEN ini.ref ELSE ini.ref + n
               c1   == ModelBasedReflexAgent(h0, "vacuum", "vacuum", r1, ini.ref, "NO-OP")
               c2   == ModelBasedReflexAgent(c1.h, "vacuum", "vacuum", r2, ref2, "NO-OP")
           IN  /\ heap = c2.h
               /\ agents = << c1.self, c2.self >>
               /\ args = << ConstructorArgs(h0, "vacuum", "vacuum", r1, ini.ref, "NO-OP"),
                            ConstructorArgs(h0, "vacuum", "vacuum", r2, ref2, "NO-OP") >>
               /\ trace = << << >>, << >> >>
               /\ world = NoWorld

NextTwo ==
    \E i \in {1, 2}, p \in WellFormedPercepts :
        /\ Len(trace[1]) + Len(trace[2]) < MaxCalls
        /\ Perceive(i, p)

SpecTwo == InitTwo /\ [][NextTwo]_vars

(***************************************************************************)
(* The agent of the __main__ driver                                        *)
(***************************************************************************)
\* percepts = [...] of the driver.
percepts ==
    << [loc |-> "A", dirty |-> "True"],
       [loc |-> "A", dirty |-> "False"],
       [loc |-> "B", dirty |-> "True"],
       [loc |-> "B", dirty |-> "False"],
       [loc |-> "A", dirty |-> "False"] >>

\* agent = ModelBasedReflexAgent(vacuum_transition_model, vacuum_sensor_model,
\*     vacuum_rules, {'loc': 'A', 'dirty': {'A': True, 'B': True}}, 'NO-OP')
InitDriver ==
    LET h0 == << DirtyObj("True", "True"), StateObj("A", 1) >>
        c  == ModelBasedReflexAgent(h0, "vacuum", "vacuum", vacuum_rules, 2, "NO-OP")
    IN  /\ heap = c.h
        /\ agents = << c.self >>
        /\ args = << ConstructorArgs(h0, "vacuum", "vacuum", vacuum_rules, 2, "NO-OP") >>
        /\ trace = << << >> >>
        /\ world = NoWorld

\* for t, z in enumerate(percepts, 1): action = agent.perceive(z), with z
\* whatever the environment delivers at step t; the driver's list is one run.
NextDriver ==
    \E z \in WellFormedPercepts :
        /\ Len(trace[1]) < Len(percepts)
        /\ Perceive(1, z)

SpecDriver == InitDriver /\ [][NextDriver]_vars

\* The driver's agent with another initial belief ("could be empty; the
\* agent will fill via sensor model"): None, {}, a partial or a full state.
InitDriverAny ==
    \E ini \in InitialStates :
        LET c == ModelBasedReflexAgent(ini.h, "vacuum", "vacuum", vacuum_rules, ini.ref, "NO-OP")
        IN  /\ heap = c.h
            /\ agents = << c.self >>
            /\ args = << ConstructorArgs(ini.h, "vacuum", "vacuum", vacuum_rules,
                                         ini.ref, "NO-OP") >>
            /\ trace = << << >> >>
            /\ world = NoWorld

SpecDriverAny == InitDriverAny /\ [][NextDriver]_vars

(***************************************************************************)
(* Vocabulary of the properties                                            *)
(***************************************************************************)
Last(q) == q[Len(q)]

\* This step is a perceive call on agent i.
Called(i) == Len(trace'[i]) = Len(trace[i]) + 1

\* The record of the call this step makes on agent i.
ThisCall(i) == Last(trace'[i])

\* The positions of the rules of list r whose condition is true on state s.
TrueAt(h, s, r) == {k \in 1..Len(r) : Condition(r[k].condition, h, s) = "True"}

\* The positions of the rules of list r whose condition raises on state s.
RaiseAt(h, s, r) == {k \in 1..Len(r) : Condition(r[k].condition, h, s) = "raise"}

Least(S) == CHOOSE k \in S : \A j \in S : k <= j

(***************************************************************************)
(* C1: a perceive call that completes leaves                               *)
(* state = sensor_model(p, transition_model(s, a)), returns the action of  *)
(* the first rule whose condition is true on that new state (no_op when    *)
(* none is) and leaves last_action equal to the returned action; the       *)
(* action handed to the transition model on the next call is the action    *)
(* the previous completed call returned.                                   *)
(***************************************************************************)
C1_Step(i) ==
    LET a  == agents[i]
        c  == ThisCall(i)
        t  == transition_model(a.transition_model, heap, a.state, a.action)
        z  == sensor_model(a.sensor_model, t.h, c.percept, t.r)
        s2 == agents'[i].state
        T  == TrueAt(heap', s2, a.rules)
    IN  /\ c.raised = "" =>
              /\ t.r # 0 /\ z.r # 0
              /\ Val(heap', s2) = Val(z.h, z.r)
              /\ c.state = Val(z.h, z.r)
              /\ c.ret = IF T = {} THEN a.no_op ELSE a.rules[Least(T)].action
              /\ agents'[i].action = c.ret
        /\ (Len(trace[i]) > 0 /\ Last(trace[i]).raised = "") =>
              c.tm_action = Last(trace[i]).ret

C1_PerceiveContract == [][\A i \in DOMAIN agents : Called(i) => C1_Step(i)]_vars

\* Two calls have completed, the first returned a move and the second matched a rule.
C1_Witness ==
    /\ Len(trace[1]) >= 2
    /\ trace[1][1].raised = "" /\ trace[1][2].raised = ""
    /\ trace[1][1].ret \in {"LEFT", "RIGHT"}
    /\ trace[1][2].matched > 0
    /\ trace[1][2].state # trace[1][1].state
    /\ agents[1].transition_model = "vacuum" /\ agents[1].sensor_model = "identity"

(***************************************************************************)
(* C2 (as amended): on the agent's belief state s and rule list r,         *)
(* rule_match returns the rule at the smallest position whose condition is *)
(* true on s and none when no condition is true; and for two rules with    *)
(* different actions whose conditions are both true on s, the earlier of   *)
(* which is the first rule of r whose condition is true, swapping their    *)
(* positions changes which rule is returned.                               *)
(***************************************************************************)
\* The list r with the rules at positions i and j exchanged.
Swap(r, i, j) ==
    [k \in 1..Len(r) |-> IF k = i THEN r[j] ELSE IF k = j THEN r[i] ELSE r[k]]

\* rule_match returns the first rule whose condition is true, or none; it
\* raises only when a condition does.
FirstMatch(h, s, r) ==
    LET m == rule_match(h, s, r)
        T == TrueAt(h, s, r)
    IN  /\ m = -1 => RaiseAt(h, s, r) # {}
        /\ m # -1 => m = (IF T = {} THEN 0 ELSE Least(T))

\* Swapping the rules at i < j changes the rule that is returned.
SwapChanges(h, s, r, i, j) ==
    LET m  == rule_match(h, s, r)
        m2 == rule_match(h, s, Swap(r, i, j))
    IN  m > 0 /\ m2 > 0 /\ Swap(r, i, j)[m2] # r[m]

\* The pairs of positions of r the swap clause speaks of: both conditions
\* true on s, different actions (and every condition of r total on s).
TiedPairs(h, s, r) ==
    {ij \in (1..Len(r)) \X (1..Len(r)) :
        /\ ij[1] < ij[2]
        /\ RaiseAt(h, s, r) = {}
        /\ {ij[1], ij[2]} \subseteq TrueAt(h, s, r)
        /\ r[ij[1]].action # r[ij[2]].action}

C2_FirstMatchWins ==
    \A a \in DOMAIN agents :
        LET s == agents[a].state
            r == agents[a].rules
        IN  /\ FirstMatch(heap, s, r)
            /\ \A ij \in TiedPairs(heap, s, r) :
                   ij[1] = Least(TrueAt(heap, s, r)) => SwapChanges(heap, s, r, ij[1], ij[2])

\* C2 as stated: any two simultaneously true rules with different actions,
\* on the belief state a completed perceive call ran rule_match on.
C2_AnySwapChanges ==
    \A a \in DOMAIN agents :
        LET s == agents[a].state
            r == agents[a].rules
        IN  (Len(trace[a]) > 0 /\ Last(trace[a]).raised = "") =>
            /\ FirstMatch(heap, s, r)
            /\ \A ij \in TiedPairs(heap, s, r) : SwapChanges(heap, s, r, ij[1], ij[2])

\* A call matched the first of two simultaneously true rules with different actions.
C2_Witness ==
    /\ Len(trace[1]) >= 1
    /\ Last(trace[1]).raised = ""
    /\ Last(trace[1]).matched = 1
    /\ TiedPairs(heap, agents[1].state, agents[1].rules) # {}

(***************************************************************************)
(* C3: for every state, last action and percept, update_state returns      *)
(* sensor_model(percept, transition_model(state, last_action)): predict    *)
(* first, from the state and the action; correct second, from the percept  *)
(* and the predicted state.                                                *)
(***************************************************************************)
C3_At(h, s, a, p, tm, sm) ==
    LET u == update_state(h, s, a, p, tm, sm)
        t == transition_model(tm, h, s, a)
    IN  IF t.r = 0 THEN u.r = 0 /\ u.raised = "transition_model"
        ELSE LET z == sensor_model(sm, t.h, p, t.r)
             IN  IF z.r = 0 THEN u.r = 0 /\ u.raised = "sensor_model"
                 ELSE u.r # 0 /\ u.raised = "" /\ Val(u.h, u.r) = Val(z.h, z.r)

C3_UpdateIsPredictThenCorrect ==
    \A i \in DOMAIN agents : \A a \in MovesAndOthers \cup {agents[i].action} :
      \A p \in Percepts :
        C3_At(heap, agents[i].state, a, p,
              agents[i].transition_model, agents[i].sensor_model)

\* A call whose result depends on the order: the vacuum models were handed
\* LEFT (predicting loc A) and a percept at B, and the state says B.
C3_Witness ==
    /\ agents[1].transition_model = "vacuum" /\ agents[1].sensor_model = "vacuum"
    /\ Len(trace[1]) >= 2
    /\ Last(trace[1]).raised = ""
    /\ Last(trace[1]).tm_action = "LEFT"
    /\ Last(trace[1]).percept.loc = "B"
    /\ Last(trace[1]).state.loc = "B"

(***************************************************************************)
(* C4: when no rule's condition is true on the updated belief state,       *)
(* perceive does not fail: it returns no_op and stores it as last_action,  *)
(* and the next call hands no_op to the transition model.                  *)
(***************************************************************************)
C4_Step(i) ==
    LET a == agents[i]
        c == ThisCall(i)
    IN  /\ ( /\ c.raised \notin {"transition_model", "sensor_model"}
             /\ \A k \in 1..Len(a.rules) :
                    Condition(a.rules[k].condition, heap', agents'[i].state) = "False" )
           => c.raised = "" /\ c.matched = 0 /\ c.ret = a.no_op
              /\ agents'[i].action = a.no_op
        /\ (Len(trace[i]) > 0 /\ Last(trace[i]).raised = "" /\ Last(trace[i]).matched = 0)
           => c.tm_action = a.no_op

C4_NoMatchGivesNoOp == [][\A i \in DOMAIN agents : Called(i) => C4_Step(i)]_vars

\* A call found no matching rule in a non-empty list and another call followed.
C4_Witness ==
    /\ Len(trace[1]) >= 2
    /\ agents[1].rules # << >>
    /\ trace[1][1].raised = "" /\ trace[1][1].matched = 0
    /\ trace[1][1].ret = "NO-OP"
    /\ trace[1][2].tm_action = "NO-OP"

(***************************************************************************)
(* C5: after construction and before any perceive call last_action is the  *)
(* configured no_op and state is the supplied initial state, or the empty  *)
(* mapping when none was supplied; the first perceive call hands no_op to  *)
(* the transition model.                                                   *)
(***************************************************************************)
C5_Construction ==
    \A i \in DOMAIN agents :
        /\ trace[i] = << >> =>
              /\ agents[i].action = args[i].no_op
              /\ agents[i].no_op = args[i].no_op
              /\ Val(heap, agents[i].state) = args[i].initial_value
              /\ args[i].is_none => Val(heap, agents[i].state) = EmptyVal
              /\ args[i].initial_value # EmptyVal => agents[i].state = args[i].initial_state
        /\ Len(trace[i]) >= 1 => trace[i][1].tm_action = args[i].no_op

\* An agent built with no initial state and no_op 'NO-OP' has made its first call.
C5_Witness ==
    /\ Len(trace[1]) = 1
    /\ args[1].is_none
    /\ args[1].no_op = "NO-OP"
    /\ trace[1][1].tm_action = "NO-OP"
    /\ trace[1][1].raised = "" /\ trace[1][1].matched > 0

(***************************************************************************)
(* C6: two freshly constructed agents with identical models, rule list,    *)
(* initial state and no_op, fed the same percept sequence, return the same *)
(* actions and end in the same belief state and last_action.               *)
(***************************************************************************)
SameConfig ==
    /\ args[1].transition_model = args[2].transition_model
    /\ args[1].sensor_model = args[2].sensor_model
    /\ args[1].rules = args[2].rules
    /\ args[1].is_none = args[2].is_none
    /\ args[1].initial_value = args[2].initial_value
    /\ args[1].no_op = args[2].no_op

\* The percepts of the first k calls on agent i.
Fed(i, k) == [j \in 1..k |-> trace[i][j].percept]

FullVal(loc, a, b) == [loc |-> loc, has_dirty |-> TRUE, A |-> a, B |-> b]

ScenarioActions == << "SUCK", "RIGHT", "SUCK", "LEFT", "RIGHT" >>

ScenarioStates ==
    << FullVal("A", "True", "True"), FullVal("A", "False", "True"),
       FullVal("B", "False", "True"), FullVal("B", "False", "False"),
       FullVal("A", "False", "False") >>

C7_VacuumScenario ==
    \A k \in 1..Len(trace[1]) :
        Fed(1, k) = SubSeq(percepts, 1, k) =>
            /\ trace[1][k].raised = ""
            /\ trace[1][k].ret = ScenarioActions[k]
            /\ trace[1][k].state = ScenarioStates[k]
            /\ k = Len(trace[1]) => /\ Val(heap, agents[1].state) = ScenarioStates[k]
                                    /\ agents[1].action = ScenarioActions[k]

\* The driver's whole percept list has been fed.
C7_Witness ==
    /\ Len(trace[1]) = Len(percepts)
    /\ Fed(1, Len(percepts)) = percepts
    /\ args[1].initial_value = FullVal("A", "True", "True")
    /\ args[1].no_op = "NO-OP"

(***************************************************************************)
(* C8: when the transition model or the sensor model fails during          *)
(* perceive, the failure leaves perceive uncaught and the agent's state    *)
(* and last_action are what they were before the call; a failed correct    *)
(* phase never leaves the predicted state in the agent.                    *)
(***************************************************************************)
C8_Step(i) ==
    LET a == agents[i]
        c == ThisCall(i)
        t == transition_model(a.transition_model, heap, a.state, a.action)
        predict_fails == t.r = 0
        correct_fails == t.r # 0 /\ sensor_model(a.sensor_model, t.h, c.percept, t.r).r = 0
    IN  /\ predict_fails => c.raised = "transition_model"
        /\ correct_fails => c.raised = "sensor_model"
        /\ (predict_fails \/ correct_fails) =>
              /\ c.ret = "-"
              /\ agents'[i] = a
              /\ Val(heap', agents'[i].state) = Val(heap, a.state)
              /\ c.state = Val(heap, a.state)

C8_ModelFailureLeavesAgentUnchanged ==
    [][\A i \in DOMAIN agents : Called(i) => C8_Step(i)]_vars

\* The correct phase failed after a predict phase that moved the agent from
\* A to B: the agent still believes A.
C8_Witness ==
    /\ agents[1].transition_model = "vacuum" /\ agents[1].sensor_model = "vacuum"
    /\ Len(trace[1]) >= 2
    /\ Last(trace[1]).raised = "sensor_model"
    /\ Last(trace[1]).tm_action = "RIGHT"
    /\ Last(trace[1]).state.loc = "A"
    /\ agents[1].action = "RIGHT"

(***************************************************************************)
(* C9: perceive changes only state and last_action: the rule list          *)
(* (contents and order), the two models and no_op stay as they were.       *)
(***************************************************************************)
C9_Frame(i) ==
    /\ agents'[i].rules = agents[i].rules
    /\ agents'[i].transition_model = agents[i].transition_model
    /\ agents'[i].sensor_model = agents[i].sensor_model
    /\ agents'[i].no_op = agents[i].no_op

C9_PerceiveFrame == [][\A i \in DOMAIN agents : C9_Frame(i)]_vars

\* Two calls, each of which changed both state and last_action, the second
\* matching a rule that is not the first of the list.
C9_Witness ==
    /\ Len(trace[1]) = 2
    /\ trace[1][1].raised = "" /\ trace[1][2].raised = ""
    /\ trace[1][1].ret # args[1].no_op
    /\ trace[1][2].ret # trace[1][1].ret
    /\ trace[1][2].state # trace[1][1].state
    /\ trace[1][1].state # args[1].initial_value
    /\ trace[1][2].matched > 1

(***************************************************************************)
(* C10: under any interleaving of whole perceive calls on two agents, each *)
(* agent has the action sequence and state it would have if run alone on   *)
(* its own percept sequence, and a perceive on one agent never changes the *)
(* other's state or last_action.                                           *)
(***************************************************************************)
\* A heap of the agent's own holding an initial state of value v.
Build(v, is_none) ==
    IF is_none THEN [h |-> << >>, ref |-> 0]
    ELSE IF v.has_dirty THEN [h |-> << DirtyObj(v.A, v.B), StateObj(v.loc, 1) >>, ref |-> 2]
    ELSE [h |-> << StateObj(v.loc, 0) >>, ref |-> 1]

\* Agent i constructed and run alone on the first k percepts it was fed.
RECURSIVE RunAlone(_, _)
RunAlone(i, k) ==
    IF k = 0
    THEN LET b == Build(args[i].initial_value, args[i].is_none)
             c == ModelBasedReflexAgent(b.h, args[i].transition_model,
                      args[i].sensor_model, args[i].rules, b.ref, args[i].no_op)
         IN  [h |-> c.h, self |-> c.self, out |-> << >>]
    ELSE LET prev == RunAlone(i, k - 1)
             o    == perceive(prev.h, prev.self, trace[i][k].percept)
         IN  [h |-> o.h, self |-> o.self,
              out |-> Append(prev.out, CallRecord(o, trace[i][k].percept))]

AsIfAlone(i) ==
    LET alone == RunAlone(i, Len(trace[i]))
    IN  /\ trace[i] = alone.out
        /\ Val(heap, agents[i].state) = Val(alone.h, alone.self.state)
        /\ agents[i].action = alone.self.action

Untouched(j) ==
    /\ agents'[j] = agents[j]
    /\ Val(heap', agents'[j].state) = Val(heap, agents[j].state)

C10_Isolation ==
    /\ [](\A i \in DOMAIN agents : AsIfAlone(i))
    /\ [][\A i \in DOMAIN agents : \A j \in DOMAIN agents :
             (Called(i) /\ j # i) => Untouched(j)]_vars

\* Both agents were built from one initial-state dict, calls on them were
\* interleaved, and their beliefs have come apart.
C10_Witness ==
    /\ args[1].initial_state = args[2].initial_state /\ ~args[1].is_none
    /\ Len(trace[1]) = 2 /\ Len(trace[2]) = 1
    /\ agents[1].state # agents[2].state
    /\ Val(heap, agents[1].state).A # Val(heap, agents[2].state).A
    /\ Val(heap, agents[2].state) # args[2].initial_value

(***************************************************************************)
(* C11: for every belief state s and every last action other than LEFT and *)
(* RIGHT (the no_op, SUCK, any other), vacuum_transition_model(s, action)  *)
(* returns a state equal to s.                                             *)
(***************************************************************************)
C11_NoOpIsIdentity ==
    \A i \in DOMAIN agents : \A a \in (Actions \ {"LEFT", "RIGHT"}) \cup {agents[i].no_op} :
        a \notin {"LEFT", "RIGHT"} =>
            LET t == vacuum_transition_model(heap, agents[i].state, a)
            IN  /\ t.r # 0
                /\ Val(t.h, t.r) = Val(heap, agents[i].state)

\* A vacuum agent that believes its square dirty has been handed SUCK as
\* the last action, and still believes the square dirty after predicting.
C11_Witness ==
    /\ agents[1].transition_model = "vacuum" /\ agents[1].sensor_model = "identity"
    /\ Len(trace[1]) >= 2
    /\ Last(trace[1]).raised = ""
    /\ Last(trace[1]).tm_action = "SUCK"
    /\ Last(trace[1]).state.loc = "A" /\ Last(trace[1]).state.A = "True"

(***************************************************************************)
(* C12: with the vacuum models a perceive call never writes into a dict    *)
(* that existed before the call: the previous belief state, its nested     *)
(* dirty dict and the initial_state dict the caller passed keep their      *)
(* values, and the agent's reference is redirected to a newly built state. *)
(***************************************************************************)
C12_Step(i) ==
    /\ \A k \in 1..Len(heap) : heap'[k] = heap[k]
    /\ Val(heap', agents[i].state) = Val(heap, agents[i].state)
    /\ \A j \in DOMAIN args :
           ~args[j].is_none => Val(heap', args[j].initial_state) = args[j].initial_value
    /\ ThisCall(i).raised = "" =>
           /\ agents'[i].state > Len(heap)
           /\ agents'[i].state # agents[i].state
           /\ heap'[agents'[i].state].dirty > Len(heap)

C12_StateReplacedNotMutated == [][\A i \in DOMAIN agents : Called(i) => C12_Step(i)]_vars

\* An agent built from a caller's dict has moved and changed its dirt
\* belief, while the caller's dict still holds its initial value.
C12_Witness ==
    /\ ~args[1].is_none /\ args[1].initial_value.has_dirty
    /\ Len(trace[1]) >= 2
    /\ trace[1][2].tm_action \in {"LEFT", "RIGHT"}
    /\ Val(heap, agents[1].state).loc # args[1].initial_value.loc
    /\ Val(heap, agents[1].state).A # args[1].initial_value.A
    /\ Val(heap, args[1].initial_state) = args[1].initial_value

(***************************************************************************)
(* C13 (as amended): after every perceive call with percept (loc, dirty)   *)
(* on a vacuum agent the belief state has loc equal to the percept's loc   *)
(* and dirty[loc] equal to the percept's flag, while the believed flag of  *)
(* the other location is the same as before the call, or False when the    *)
(* belief state held no flag for it before the call; a SUCK never clears   *)
(* believed dirt by itself.                                                *)
(***************************************************************************)
\* The flag of square x in the state value v ("absent" when v holds none).
FlagOf(v, x) == IF x = "A" THEN v.A ELSE v.B

OtherLoc(x) == IF x = "A" THEN "B" ELSE "A"

\* The parts of C13 that do not speak of the other location.
C13_Observed(i) ==
    LET c   == ThisCall(i)
        new == Val(heap', agents'[i].state)
    IN  /\ c.raised = ""
        /\ new.loc = c.percept.loc
        /\ new.has_dirty
        /\ FlagOf(new, c.percept.loc) = c.percept.dirty
        /\ c.ret = "SUCK" => FlagOf(new, c.percept.loc) = "True"

C13_Step(i) ==
    LET c     == ThisCall(i)
        old   == Val(heap, agents[i].state)
        new   == Val(heap', agents'[i].state)
        other == OtherLoc(c.percept.loc)
    IN  /\ C13_Observed(i)
        /\ FlagOf(new, other) =
               (IF FlagOf(old, other) = "absent" THEN "False" ELSE FlagOf(old, other))

C13_Step_AsStated(i) ==
    LET c     == ThisCall(i)
        old   == Val(heap, agents[i].state)
        new   == Val(heap', agents'[i].state)
        other == OtherLoc(c.percept.loc)
    IN  /\ C13_Observed(i)
        /\ FlagOf(new, other) = FlagOf(old, other)

VacuumAction(p) ==
    IF p.dirty = "True" THEN "SUCK" ELSE IF p.loc = "A" THEN "RIGHT" ELSE "LEFT"

IsVacuumAgent(i) ==
    /\ agents[i].transition_model = "vacuum"
    /\ agents[i].sensor_model = "vacuum"
    /\ agents[i].rules = vacuum_rules

C14_VacuumActionSelection ==
    \A i \in DOMAIN agents :
        IsVacuumAgent(i) =>
            /\ \A p \in WellFormedPercepts :
                   LET o == perceive(heap, agents[i], p)
                   IN  /\ o.raised = ""
                       /\ o.ret = VacuumAction(p)
                       /\ o.ret # agents[i].no_op
            /\ \A k \in 1..Len(trace[i]) :
                   /\ trace[i][k].ret = VacuumAction(trace[i][k].percept)
                   /\ trace[i][k].ret # agents[i].no_op

\* A vacuum agent has returned each of the three actions; the LEFT was
\* returned at B while A was believed dirty.
C14_Witness ==
    /\ IsVacuumAgent(1)
    /\ Len(trace[1]) = 3
    /\ {trace[1][k].ret : k \in 1..3} = {"SUCK", "RIGHT", "LEFT"}
    /\ \E k \in 1..3 : trace[1][k].ret = "LEFT" /\ trace[1][k].state.A = "True"

(***************************************************************************)
(* C15: a vacuum agent constructed with no initial state, or an empty one, *)
(* does not fail on its first perceive with percept (loc, dirty); after it *)
(* the belief state has loc from the percept and a dirty map defined for   *)
(* both A and B, the observed flag from the percept, the other False.      *)
(***************************************************************************)
BuiltEmpty(i) == args[i].is_none \/ args[i].initial_value = EmptyVal

\* The belief after observing p from nothing.
FirstBelief(p) ==
    [loc |-> p.loc, has_dirty |-> TRUE,
     A |-> IF p.loc = "A" THEN p.dirty ELSE "False",
     B |-> IF p.loc = "B" THEN p.dirty ELSE "False"]

C15_EmptyStartUsable ==
    \A i \in DOMAIN agents :
        BuiltEmpty(i) =>
            /\ trace[i] = << >> => Val(heap, agents[i].state) = EmptyVal
            /\ Len(trace[i]) >= 1 =>
                   /\ trace[i][1].raised = ""
                   /\ trace[i][1].state = FirstBelief(trace[i][1].percept)
                   /\ trace[i][1].state.A \in Flags /\ trace[i][1].state.B \in Flags
            /\ Len(trace[i]) = 1 =>
                   Val(heap, agents[i].state) = FirstBelief(trace[i][1].percept)

\* An agent built with initial_state = None has seen dirt at B.
C15_Witness ==
    /\ args[1].is_none
    /\ Len(trace[1]) = 1
    /\ trace[1][1].percept = [loc |-> "B", dirty |-> "True"]
    /\ Val(heap, agents[1].state) = FullVal("B", "False", "True")
    /\ trace[1][1].ret = "SUCK"

(***************************************************************************)
(* C16: when both models succeed but a rule condition raises while being   *)
(* evaluated, the failure leaves perceive with the agent's state already   *)
(* replaced by the new corrected belief state, while last_action still     *)
(* holds the action of the previous call (neither reset to no_op nor       *)
(* updated).                                                               *)
(***************************************************************************)
\* A condition of r raises on s before any condition of r is true on s.
RaisesFirst(h, s, r) ==
    \E k \in RaiseAt(h, s, r) : \A j \in 1..(k - 1) : j \notin TrueAt(h, s, r)

C16_Step(i) ==
    LET a == agents[i]
        c == ThisCall(i)
        t == transition_model(a.transition_model, heap, a.state, a.action)
        z == sensor_model(a.sensor_model, t.h, c.percept, t.r)
    IN  /\ c.raised = "condition" =>
              /\ t.r # 0 /\ z.r # 0
              /\ c.ret = "-"
              /\ Val(heap', agents'[i].state) = Val(z.h, z.r)
              /\ c.state = Val(z.h, z.r)
              /\ agents'[i].action = a.action
              /\ agents'[i] = [a EXCEPT !.state = agents'[i].state]
        /\ (t.r # 0 /\ z.r # 0 /\ RaisesFirst(z.h, z.r, a.rules)) => c.raised = "condition"

C16_ConditionFailureKeepsNewState ==
    [][\A i \in DOMAIN agents : Called(i) => C16_Step(i)]_vars

\* After a call that returned RIGHT at A, a call at B raised in a condition:
\* the agent believes B and its last_action is still RIGHT.
C16_Witness ==
    /\ agents[1].transition_model = "vacuum" /\ agents[1].sensor_model = "vacuum"
    /\ Len(trace[1]) = 2
    /\ trace[1][1].raised = "" /\ trace[1][1].ret = "RIGHT"
    /\ trace[1][1].state.loc = "A"
    /\ trace[1][2].raised = "condition"
    /\ Val(heap, agents[1].state).loc = "B"
    /\ agents[1].action = "RIGHT"
    /\ agents[1].action # agents[1].no_op

(***************************************************************************)
(* C17: with the vacuum models the belief state after perceive does not    *)
(* depend on last_action: for every prior state s, percept p and actions   *)
(* a1, a2, vacuum_sensor_model(p, vacuum_transition_model(s, a1)) equals   *)
(* vacuum_sensor_model(p, vacuum_transition_model(s, a2)); so the action   *)
(* perceive returns does not depend on last_action either.                 *)
(***************************************************************************)
\* The value of vacuum_sensor_model(p, vacuum_transition_model(s, a)).
VacuumUpdate(h, s, a, p) ==
    LET t == vacuum_transition_model(h, s, a)
        z == vacuum_sensor_model(t.h, p, t.r)
    IN  Val(z.h, z.r)

\* Every action gives what the agent's no_op gives, hence any two agree.
C17_BeliefIgnoresLastAction ==
    \A i \in DOMAIN agents : \A p \in WellFormedPercepts :
        LET s    == agents[i].state
            ref  == VacuumUpdate(heap, s, agents[i].no_op, p)
            rret == perceive(heap, [agents[i] EXCEPT !.action = agents[i].no_op], p).ret
        IN  \A a \in Actions :
                /\ VacuumUpdate(heap, s, a, p) = ref
                /\ perceive(heap, [agents[i] EXCEPT !.action = a], p).ret = rret

\* A vacuum agent was handed LEFT (predicting A) and a percept at B: it
\* believes B, as it would after any other action.
C17_Witness ==
    /\ Len(trace[1]) >= 2
    /\ Last(trace[1]).tm_action = "LEFT"
    /\ Last(trace[1]).percept.loc = "B"
    /\ Val(heap, agents[1].state).loc = "B"

(***************************************************************************)
(* The vacuum agent in closed loop with a faithful two-square world        *)
(***************************************************************************)
\* The percept of the current square: the true location and its true dirt.
Sense(w) == [loc |-> w.loc, dirty |-> IF w.loc = "A" THEN w.A ELSE w.B]

\* The world after the agent's action: SUCK cleans the current square,
\* RIGHT moves to B, LEFT moves to A; dirt never reappears.
Execute(w, action) ==
    CASE action = "SUCK"  -> IF w.loc = "A" THEN [w EXCEPT !.A = "False"]
                             ELSE [w EXCEPT !.B = "False"]
      [] action = "RIGHT" -> [w EXCEPT !.loc = "B"]
      [] action = "LEFT"  -> [w EXCEPT !.loc = "A"]
      [] OTHER            -> w

\* The dicts still referenced once self.state has been rebound: the state
\* dict at address s and its dirty dict; every other dict is reclaimed.
Collect(h, s) ==
    IF h[s].dirty = 0 THEN [h |-> << h[s] >>, r |-> 1]
    ELSE [h |-> << h[h[s].dirty], [h[s] EXCEPT !.dirty = 1] >>, r |-> 2]

InitLoop ==
    \E ini \in InitialStates, loc \in {"A", "B"}, a \in Flags, b \in Flags :
        LET no_op == "NO-OP"
            c == ModelBasedReflexAgent(ini.h, "vacuum", "vacuum", vacuum_rules, ini.ref, no_op)
            g == Collect(c.h, c.self.state)
        IN  /\ heap = g.h
            /\ agents = << [c.self EXCEPT !.state = g.r] >>
            /\ args = << ConstructorArgs(ini.h, "vacuum", "vacuum", vacuum_rules,
                                         ini.ref, no_op) >>
            /\ trace = << << >> >>
            /\ world = World(loc, a, b)

\* One turn of the host loop: read the percept, action = agent.perceive(z),
\* execute the action.  Only the latest call is kept in trace.
LoopStep ==
    \E z \in {Sense(world)} :
    \E o \in {perceive(heap, agents[1], z)} :
    \E g \in {Collect(o.h, o.self.state)} :
        /\ heap' = g.h
        /\ agents' = << [o.self EXCEPT !.state = g.r] >>
        /\ trace' = << << CallRecord(o, z) >> >>
        /\ world' = IF o.raised = "" THEN Execute(world, o.ret) ELSE world
        /\ UNCHANGED args

NextLoop == LoopStep

\* The host loop never stops calling perceive, and perceive terminates.
SpecLoop == InitLoop /\ [][NextLoop]_vars /\ WF_vars(NextLoop)

(***************************************************************************)
(* C18: in closed loop with a faithful two-square world, from any initial  *)
(* dirt configuration the vacuum agent eventually believes both squares    *)
(* clean and both are clean, and from then on it never returns SUCK again  *)
(* and alternates RIGHT and LEFT forever.                                  *)
(***************************************************************************)
AllClean ==
    /\ world.A = "False" /\ world.B = "False"
    /\ Val(heap, agents[1].state).A = "False"
    /\ Val(heap, agents[1].state).B = "False"

C18_ClosedLoopProgress ==
    /\ <>[]AllClean
    /\ [][AllClean => /\ AllClean'
                      /\ agents'[1].action \in {"LEFT", "RIGHT"}
                      /\ agents'[1].action # agents[1].action
                      /\ Last(trace'[1]).ret = agents'[1].action]_vars
    /\ []<>(agents[1].action = "LEFT")
    /\ []<>(agents[1].action = "RIGHT")

\* Both squares started dirty; both are clean and believed clean, and the
\* agent has just returned LEFT.
C18_Witness ==
    /\ world.A0 = "True" /\ world.B0 = "True"
    /\ AllClean
    /\ agents[1].action = "LEFT"
    /\ world.loc = "A"

====
